---- MODULE Spec2Model ----
(***************************************************************************)
(* Model of hw/hal/src/hal_flash.c: the hardware-independent flash access  *)
(* layer (bounds validation, verified read/write/erase, region erase,      *)
(* constant-fill scan, device initialisation).                             *)
(*                                                                         *)
(* uint32_t values are kept at their full 32-bit width as a pair of        *)
(* 16-bit limbs <<hi, lo>>, because TLC integers stop at 2^31-1.  All      *)
(* address arithmetic is modulo 2^32, as in the C code.                    *)
(***************************************************************************)
EXTENDS Integers, Sequences, FiniteSets, TLC

VARIABLES
    mem,      \* flash contents: the set of <<id, addr>> cells programmed to 0x00 (all others read 0xFF)
    syscfg,   \* build configuration: HAL_FLASH_VERIFY_WRITES / HAL_FLASH_VERIFY_ERASES
    pc,       \* "idle": caller about to call; "ret": a call has returned; "fatal": an assert() stopped the process
    op,       \* the call just made (name and arguments)
    ret,      \* its return value
    calls     \* driver primitives invoked by the call, in order: [fn, arg, rc]

vars == <<mem, syscfg, pc, op, ret, calls>>

(***************************************************************************)
(* 32-bit unsigned arithmetic on limb pairs                                *)
(***************************************************************************)
Limb == 2^16

U32(n) == <<n \div Limb, n % Limb>>

Add32(a, b) ==
    LET lo == a[2] + b[2]
    IN  <<(a[1] + b[1] + (lo \div Limb)) % Limb, lo % Limb>>

Sub32(a, b) ==
    LET borrow == IF a[2] < b[2] THEN 1 ELSE 0
    IN  <<(a[1] - b[1] - borrow + Limb) % Limb, (a[2] - b[2] + Limb) % Limb>>

Lt32(a, b) == a[1] < b[1] \/ (a[1] = b[1] /\ a[2] < b[2])
Le32(a, b) == a = b \/ Lt32(a, b)
Gt32(a, b) == Lt32(b, a)

Zero32 == <<0, 0>>
Max32 == <<Limb - 1, Limb - 1>>

\* value of a uint32_t known to be small (high limb zero)
Nat32(a) == a[2]

(***************************************************************************)
(* Board support package: the flash devices behind hal_bsp_flash_dev() and *)
(* their drivers.  Not part of hal_flash.c.                                *)
(***************************************************************************)
\* the null pointer returned for an unconfigured id
NoDev == [id |-> -1]

Sectors4x40(base) ==
    [i \in 1..4 |-> [start |-> Add32(base, U32(64 * (i - 1))), size |-> U32(64)]]

FlashDevs ==
    << \* id 0: base 0x8000, 0x100 bytes, four 0x40-byte sectors, no is_empty capability
       [id |-> 0, hf_base_addr |-> U32(\H8000), hf_size |-> U32(\H100),
        hf_sector_cnt |-> 4, sectors |-> Sectors4x40(U32(\H8000)), hff_is_empty |-> FALSE],
       \* id 1: the last 0x100 bytes of the address space (base + size = 2^32)
       [id |-> 1, hf_base_addr |-> <<\HFFFF, \HFF00>>, hf_size |-> U32(\H100),
        hf_sector_cnt |-> 2,
        sectors |-> <<[start |-> <<\HFFFF, \HFF00>>, size |-> U32(\H80)],
                      [start |-> <<\HFFFF, \HFF80>>, size |-> U32(\H80)]>>,
        hff_is_empty |-> FALSE],
       \* id 2: base 0, 0x100 bytes, sectors of 0x20 and 0x60 bytes (the tail
       \* 0x80..0xFF belongs to no sector), driver provides is_empty
       [id |-> 2, hf_base_addr |-> Zero32, hf_size |-> U32(\H100),
        hf_sector_cnt |-> 2,
        sectors |-> <<[start |-> Zero32, size |-> U32(\H20)],
                      [start |-> U32(\H20), size |-> U32(\H60)]>>,
        hff_is_empty |-> TRUE] >>

hal_bsp_flash_dev(id) ==
    IF id + 1 \in DOMAIN FlashDevs THEN FlashDevs[id + 1] ELSE NoDev

IsNull(hf) == hf.id = NoDev.id

\* the sector of hf that holds addr, as a set of indices (empty when none does)
SectorsAt(hf, addr) ==
    {i \in 1..hf.hf_sector_cnt :
        /\ Le32(hf.sectors[i].start, addr)
        /\ Lt32(Sub32(addr, hf.sectors[i].start), hf.sectors[i].size)}

\* byte stored at addr of device id
ByteAt(m, id, addr) == IF <<id, addr>> \in m THEN 0 ELSE 255

\* a driver fault plan: the calls of primitive fn whose ordinal (0-based,
\* counted within one API call) is in `at` return rc; every other call returns 0
NoFault == [fn |-> "none", at |-> {}, rc |-> 0]

NCalls(log, fn) == Cardinality({k \in DOMAIN log : log[k].fn = fn})

DrvRc(fault, log, fn) ==
    IF fault.fn = fn /\ NCalls(log, fn) \in fault.at THEN fault.rc ELSE 0

\* hff_write on NOR flash: programming can only clear bits
DrvWrite(m, id, address, src) ==
    m \cup {<<id, Add32(address, U32(k - 1))>> : k \in {j \in DOMAIN src : src[j] = 0}}

\* hff_erase_sector: the sector holding the address reads 0xFF afterwards
DrvEraseSector(m, hf, address) ==
    {c \in m : ~(c[1] = hf.id /\ SectorsAt(hf, c[2]) # {}
                 /\ SectorsAt(hf, c[2]) = SectorsAt(hf, address))}

(***************************************************************************)
(* hal_flash.c                                                             *)
(***************************************************************************)
hal_flash_check_addr(hf, addr) ==
    IF Lt32(addr, hf.hf_base_addr) \/ Gt32(addr, Add32(hf.hf_base_addr, hf.hf_size))
    THEN -1
    ELSE 0

\* what one API call did: return value, whether an assert() fired, the flash
\* contents afterwards and the driver primitives it invoked
Result(r, f, m, log) == [ret |-> r, fatal |-> f, mem |-> m, calls |-> log]

Call(log, fn, arg, rc) == Append(log, [fn |-> fn, arg |-> arg, rc |-> rc])

\* size of the buffer of hal_flash_cmp / hal_flash_cmp_erased
\* (MYNEWT_VAL(HAL_FLASH_VERIFY_BUF_SZ), a build setting)
VerifyBufSz == 4

\* size of the buffer of hal_flash_is_setto
SettoBufSz == 32

\* variant: only negative values are taken as failure
Failed_NegativeOnly(rc) == rc < 0

\* a nonzero return of a driver primitive
Failed(rc) == rc # 0

\* variant: the loop stops at the first device whose init fails
RECURSIVE InitLoop_StopAtFailure(_, _, _, _, _)
InitLoop_StopAtFailure(fault, m, i, rc, log) ==
    LET hf == hal_bsp_flash_dev(i)
        r  == DrvRc(fault, log, "init")
    IN  IF IsNull(hf)
        THEN Result(rc, FALSE, m, log)
        ELSE IF r # 0
        THEN Result(-1, FALSE, m, Call(log, "init", i, r))
        ELSE InitLoop_StopAtFailure(fault, m, (i + 1) % 256, rc,
                                    Call(log, "init", i, r))

RECURSIVE InitLoop(_, _, _, _, _)
InitLoop(fault, m, i, rc, log) ==
    LET hf == hal_bsp_flash_dev(i)
        r  == DrvRc(fault, log, "init")
    IN  IF IsNull(hf)
        THEN Result(rc, FALSE, m, log)
        ELSE InitLoop(fault, m, (i + 1) % 256, IF r # 0 THEN -1 ELSE rc,
                      Call(log, "init", i, r))

hal_flash_init(fault, m) == InitLoop(fault, m, 0, 0, <<>>)

hal_flash_read(fault, m, id, address, num_bytes) ==
    LET hf == hal_bsp_flash_dev(id)
        rc == DrvRc(fault, <<>>, "read")
    IN  IF IsNull(hf)
        THEN Result(-1, FALSE, m, <<>>)
        ELSE IF hal_flash_check_addr(hf, address) # 0
                \/ hal_flash_check_addr(hf, Add32(address, num_bytes)) # 0
        THEN Result(-1, FALSE, m, <<>>)
        ELSE Result(rc, FALSE, m,
                    Call(<<>>, "read", [addr |-> address, len |-> num_bytes], rc))

\* variant: a last chunk shorter than the buffer is skipped
ChunkSz_DropPartial(rem, bufsz) == IF rem >= bufsz THEN bufsz ELSE 0

\* bytes handled in one pass of a verification loop
ChunkSz(rem, bufsz) == IF rem >= bufsz THEN bufsz ELSE rem

\* hal_flash_cmp_erased; num_bytes is a sector size, off counts up to it
RECURSIVE CmpErasedLoop(_, _, _, _, _, _, _)
CmpErasedLoop(fault, m, hf, address, num_bytes, off, log) ==
    IF ~(off < num_bytes)
    THEN [rc |-> 0, calls |-> log]
    ELSE LET chunk_sz == ChunkSz(num_bytes - off, VerifyBufSz)
             at  == Add32(address, U32(off))
             rc  == DrvRc(fault, log, "read")
             log2 == Call(log, "read", [addr |-> at, len |-> U32(chunk_sz)], rc)
         IN  IF rc # 0
             THEN [rc |-> rc, calls |-> log2]
             ELSE IF \E i \in 0..(chunk_sz - 1) :
                        ByteAt(m, hf.id, Add32(at, U32(i))) # 255
             THEN [rc |-> -1, calls |-> log2]
             ELSE CmpErasedLoop(fault, m, hf, address, num_bytes,
                                off + VerifyBufSz, log2)

hal_flash_cmp_erased(fault, m, hf, address, num_bytes, log) ==
    CmpErasedLoop(fault, m, hf, address, Nat32(num_bytes), 0, log)

\* hal_flash_cmp; val is the source buffer, num_bytes = Len(val)
RECURSIVE CmpLoop(_, _, _, _, _, _, _, _)
CmpLoop(fault, m, hf, address, val, num_bytes, off, log) ==
    IF ~(off < num_bytes)
    THEN [rc |-> 0, calls |-> log]
    ELSE LET chunk_sz == ChunkSz(num_bytes - off, VerifyBufSz)
             at  == Add32(address, U32(off))
             rc  == DrvRc(fault, log, "read")
             log2 == Call(log, "read", [addr |-> at, len |-> U32(chunk_sz)], rc)
         IN  IF rc # 0
             THEN [rc |-> rc, calls |-> log2]
             ELSE IF \E i \in 0..(chunk_sz - 1) :
                        ByteAt(m, hf.id, Add32(at, U32(i))) # val[off + i + 1]
             THEN [rc |-> -1, calls |-> log2]
             ELSE CmpLoop(fault, m, hf, address, val, num_bytes,
                          off + VerifyBufSz, log2)

hal_flash_cmp(fault, m, hf, address, val, num_bytes, log) ==
    CmpLoop(fault, m, hf, address, val, num_bytes, 0, log)

\* src holds the bytes of the caller's buffer.  When num_bytes is larger than
\* the buffer, hal_flash_cmp reads past its end: undefined behaviour, and
\* `ub` (a BOOLEAN) picks whether the comparison then comes out equal.
hal_flash_write(fault, ub, m, id, address, src, num_bytes) ==
    LET hf   == hal_bsp_flash_dev(id)
        rc   == DrvRc(fault, <<>>, "write")
        log1 == Call(<<>>, "write", [addr |-> address, len |-> num_bytes], rc)
        m2   == DrvWrite(m, id, address, src)
        cmp  == IF num_bytes = U32(Len(src))
                THEN hal_flash_cmp(fault, m2, hf, address, src, Len(src), log1)
                ELSE [rc |-> IF ub THEN 0 ELSE -1, calls |-> log1]
    IN  IF IsNull(hf)
        THEN Result(-1, FALSE, m, <<>>)
        ELSE IF hal_flash_check_addr(hf, address) # 0
                \/ hal_flash_check_addr(hf, Add32(address, num_bytes)) # 0
        THEN Result(-1, FALSE, m, <<>>)
        ELSE IF rc # 0
        THEN Result(rc, FALSE, m, log1)
        ELSE IF syscfg.HAL_FLASH_VERIFY_WRITES
        THEN Result(0, cmp.rc # 0, m2, cmp.calls)
        ELSE Result(0, FALSE, m2, log1)

\* the verification loop of hal_flash_erase_sector: find the sector that
\* starts at sector_address and check that it reads erased
RECURSIVE FindSectorLoop(_, _, _, _, _, _)
FindSectorLoop(fault, m, hf, sector_address, i, log) ==
    IF ~(i < hf.hf_sector_cnt)
    THEN Result(0, FALSE, m, log)
    ELSE LET rc   == DrvRc(fault, log, "sector_info")
             log2 == Call(log, "sector_info", i, rc)
             start == hf.sectors[i + 1].start
             size  == hf.sectors[i + 1].size
             cmp  == hal_flash_cmp_erased(fault, m, hf, start, size, log2)
         IN  IF rc # 0
             THEN Result(0, TRUE, m, log2)
             ELSE IF sector_address = start
             THEN Result(0, cmp.rc # 0, m, cmp.calls)
             ELSE FindSectorLoop(fault, m, hf, sector_address, i + 1, log2)

hal_flash_erase_sector(fault, m, id, sector_address) ==
    LET hf   == hal_bsp_flash_dev(id)
        rc   == DrvRc(fault, <<>>, "erase_sector")
        log1 == Call(<<>>, "erase_sector", sector_address, rc)
        m2   == DrvEraseSector(m, hf, sector_address)
    IN  IF IsNull(hf)
        THEN Result(-1, FALSE, m, <<>>)
        ELSE IF hal_flash_check_addr(hf, sector_address) # 0
        THEN Result(-1, FALSE, m, <<>>)
        ELSE IF rc # 0
        THEN Result(rc, FALSE, m, log1)
        ELSE IF syscfg.HAL_FLASH_VERIFY_ERASES
        THEN FindSectorLoop(fault, m2, hf, sector_address, 0, log1)
        ELSE Result(0, FALSE, m2, log1)

\* variant: only a true wrap is rejected
WrapAround_Strict(end, address) == Lt32(end, address)

\* the wrap-around test of hal_flash_erase
WrapAround(end, address) == Le32(end, address)

\* variant: only sectors that start inside [address, end) are taken
SectorQualifies_StartInside(address, end, start, end_area) ==
    Le32(address, start) /\ Gt32(end, start)

\* some part of [address, end) falls inside the sector [start, end_area)
SectorQualifies(address, end, start, end_area) ==
    Lt32(address, end_area) /\ Gt32(end, start)

RECURSIVE EraseLoop(_, _, _, _, _, _, _)
EraseLoop(fault, m, hf, address, end, i, log) ==
    IF ~(i < hf.hf_sector_cnt)
    THEN Result(0, FALSE, m, log)
    ELSE LET rc    == DrvRc(fault, log, "sector_info")
             log2  == Call(log, "sector_info", i, rc)
             start == hf.sectors[i + 1].start
             size  == hf.sectors[i + 1].size
             end_area == Add32(start, size)
             erc   == DrvRc(fault, log2, "erase_sector")
             log3  == Call(log2, "erase_sector", start, erc)
             m2    == DrvEraseSector(m, hf, start)
             cmp   == hal_flash_cmp_erased(fault, m2, hf, start, size, log3)
         IN  IF rc # 0
             THEN Result(0, TRUE, m, log2)
             ELSE IF ~SectorQualifies(address, end, start, end_area)
             THEN EraseLoop(fault, m, hf, address, end, i + 1, log2)
             ELSE IF Failed(erc)
             THEN Result(-1, FALSE, m, log3)
             ELSE IF ~syscfg.HAL_FLASH_VERIFY_ERASES
             THEN EraseLoop(fault, m2, hf, address, end, i + 1, log3)
             ELSE IF cmp.rc # 0
             THEN Result(0, TRUE, m2, cmp.calls)
             ELSE EraseLoop(fault, m2, hf, address, end, i + 1, cmp.calls)

hal_flash_erase(fault, m, id, address, num_bytes) ==
    LET hf  == hal_bsp_flash_dev(id)
        end == Add32(address, num_bytes)
    IN  IF IsNull(hf)
        THEN Result(-1, FALSE, m, <<>>)
        ELSE IF hal_flash_check_addr(hf, address) # 0
                \/ hal_flash_check_addr(hf, Add32(address, num_bytes)) # 0
        THEN Result(-1, FALSE, m, <<>>)
        ELSE IF WrapAround(end, address)
        THEN Result(-1, FALSE, m, <<>>)
        ELSE EraseLoop(fault, m, hf, address, end, 0, <<>>)

RECURSIVE IsSettoLoop(_, _, _, _, _, _, _)
IsSettoLoop(fault, m, hf, address, num_bytes, val, log) ==
    IF num_bytes = Zero32
    THEN Result(1, FALSE, m, log)
    ELSE LET blksz == IF Gt32(U32(SettoBufSz), num_bytes)
                      THEN num_bytes ELSE U32(SettoBufSz)
             rc    == DrvRc(fault, log, "read")
             log2  == Call(log, "read", [addr |-> address, len |-> blksz], rc)
         IN  IF rc # 0
             THEN Result(-1, FALSE, m, log2)
             ELSE IF \E i \in 0..(Nat32(blksz) - 1) :
                        ByteAt(m, hf.id, Add32(address, U32(i))) # val
             THEN Result(0, FALSE, m, log2)
             ELSE IsSettoLoop(fault, m, hf, address, Sub32(num_bytes, blksz),
                              val, log2)

hal_flash_is_setto(fault, m, hf, address, num_bytes, val) ==
    IsSettoLoop(fault, m, hf, address, num_bytes, val, <<>>)

hal_flash_is_ones(fault, m, hf, address, num_bytes) ==
    hal_flash_is_setto(fault, m, hf, address, num_bytes, 255)

hal_flash_is_zeroes(fault, m, hf, address, num_bytes) ==
    hal_flash_is_setto(fault, m, hf, address, num_bytes, 0)

\* the driver's own emptiness check (hff_is_empty), for the devices that have one
DrvIsEmpty(m, hf, address, num_bytes) ==
    IF \A i \in 0..(Nat32(num_bytes) - 1) :
           ByteAt(m, hf.id, Add32(address, U32(i))) = 255
    THEN 1 ELSE 0

hal_flash_isempty(fault, m, id, address, num_bytes) ==
    LET hf == hal_bsp_flash_dev(id)
        rc == IF DrvRc(fault, <<>>, "is_empty") # 0
              THEN DrvRc(fault, <<>>, "is_empty")
              ELSE DrvIsEmpty(m, hf, address, num_bytes)
    IN  IF IsNull(hf)
        THEN Result(-1, FALSE, m, <<>>)
        ELSE IF hal_flash_check_addr(hf, address) # 0
                \/ hal_flash_check_addr(hf, Add32(address, num_bytes)) # 0
        THEN Result(-1, FALSE, m, <<>>)
        ELSE IF hf.hff_is_empty
        THEN Result(rc, FALSE, m,
                    Call(<<>>, "is_empty", [addr |-> address, len |-> num_bytes], rc))
        ELSE hal_flash_is_ones(fault, m, hf, address, num_bytes)

NoOp == [name |-> "none"]

Init ==
    /\ mem = {}
    /\ syscfg \in [HAL_FLASH_VERIFY_WRITES : BOOLEAN, HAL_FLASH_VERIFY_ERASES : BOOLEAN]
    /\ pc = "idle"
    /\ op = NoOp
    /\ ret = 0
    /\ calls = <<>>

\* the single-threaded caller takes the result and goes on to its next call
Return ==
    /\ pc = "ret"
    /\ pc' = "idle"
    /\ op' = NoOp
    /\ ret' = 0
    /\ calls' = <<>>
    /\ UNCHANGED <<mem, syscfg>>

(***************************************************************************)
(* The calls the caller makes, with the arguments and driver faults tried   *)
(***************************************************************************)
\* at most this many bytes of flash are programmed at any time
MaxProgrammed == 2

\* failure values a driver primitive may return
DriverCodes == {-5, 7}

Faults(fns, ords) ==
    {NoFault} \cup {[fn |-> f, at |-> {k}, rc |-> c] :
                        f \in fns, k \in ords, c \in DriverCodes}

InitFaults ==
    {[fn |-> "init", at |-> S, rc |-> c] :
        S \in SUBSET (0..(Len(FlashDevs) - 1)), c \in DriverCodes}

\* logical ids: the configured devices and one id past them
Ids == 0..Len(FlashDevs)

AddrsOf(id) ==
    CASE id = 0 -> {U32(\H7FFF), U32(\H8000), U32(\H8020), U32(\H8030),
                    U32(\H803F), U32(\H8040), U32(\H80FF), U32(\H8100)}
      [] id = 1 -> {<<\HFFFF, \HFF00>>, <<\HFFFF, \HFF80>>, Max32}
      [] id = 2 -> {Zero32, U32(\H10), U32(\H20), U32(\H70), U32(\H80), U32(\H100)}
      [] OTHER  -> {U32(\H8000)}

\* the addresses at which write programs zero bytes
ProgAddrsOf(id) ==
    CASE id = 0 -> {U32(\H803F), U32(\H80FF)}
      [] id = 2 -> {U32(\H80)}
      [] OTHER  -> {}

WriteAddrsOf(id) ==
    ProgAddrsOf(id) \cup
    CASE id = 0 -> {U32(\H7FFF), U32(\H8000), U32(\H8040 - VerifyBufSz),
                    U32(\H8100)}
      [] id = 1 -> {<<\HFFFF, \HFF00>>}
      [] id = 2 -> {}
      [] OTHER  -> {U32(\H8000)}

Ones(n) == [k \in 1..n |-> 255]

\* source buffers of write: around one and two verification buffers
OnesSrcs ==
    {Ones(n) : n \in {0, 1, VerifyBufSz - 1, VerifyBufSz, VerifyBufSz + 1,
                      2 * VerifyBufSz + 1}}

SrcsAt(id, address) ==
    IF address \in ProgAddrsOf(id)
    THEN OnesSrcs \cup {<<0>>, <<255, 0>>}
    ELSE OnesSrcs

\* lengths so large that address + num_bytes wraps past 2^32
WrapLens == {<<\HFFFF, \HFFF0>>, <<\HFFFF, \H8000>>}

ReadLens == {Zero32, U32(1), U32(\H100)} \cup WrapLens

EraseLens ==
    {Zero32, U32(1), U32(\H20), U32(\H40), U32(\H41), U32(\H100)} \cup WrapLens

\* around one and two buffers of hal_flash_is_setto
ScanLens ==
    {Zero32, U32(1), U32(SettoBufSz - 1), U32(SettoBufSz), U32(SettoBufSz + 1),
     U32(2 * SettoBufSz), U32(2 * SettoBufSz + 1)}

Do(o, r) ==
    /\ pc' = IF r.fatal THEN "fatal" ELSE "ret"
    /\ op' = o
    /\ ret' = r.ret
    /\ calls' = r.calls
    /\ mem' = r.mem
    /\ UNCHANGED syscfg

HalFlashInit ==
    /\ pc = "idle"
    /\ \E fault \in InitFaults :
        Do([name |-> "init"], hal_flash_init(fault, mem))

HalFlashRead ==
    /\ pc = "idle"
    /\ \E id \in Ids : \E address \in AddrsOf(id), num_bytes \in ReadLens,
       fault \in Faults({"read"}, {0}) :
        Do([name |-> "read", id |-> id, address |-> address, num_bytes |-> num_bytes],
           hal_flash_read(fault, mem, id, address, num_bytes))

HalFlashWrite ==
    /\ pc = "idle"
    /\ \E id \in Ids : \E address \in WriteAddrsOf(id),
       fault \in Faults({"write"}, {0}) \cup Faults({"read"}, 0..1) :
        \E src \in SrcsAt(id, address) :
        \E num_bytes \in {U32(Len(src))} \cup WrapLens, ub \in BOOLEAN :
            LET r == hal_flash_write(fault, ub, mem, id, address, src, num_bytes)
            IN  /\ Cardinality(r.mem) <= MaxProgrammed
                /\ Do([name |-> "write", id |-> id, address |-> address,
                       src |-> src, num_bytes |-> num_bytes], r)

HalFlashEraseSector ==
    /\ pc = "idle"
    /\ \E id \in Ids : \E sector_address \in AddrsOf(id),
       fault \in Faults({"erase_sector"}, {0}) \cup Faults({"sector_info", "read"}, 0..1) :
        Do([name |-> "erase_sector", id |-> id, sector_address |-> sector_address],
           hal_flash_erase_sector(fault, mem, id, sector_address))

HalFlashErase ==
    /\ pc = "idle"
    /\ \E id \in Ids : \E address \in AddrsOf(id), num_bytes \in EraseLens,
       fault \in Faults({"erase_sector"}, 0..2) \cup Faults({"sector_info", "read"}, {1}) :
        Do([name |-> "erase", id |-> id, address |-> address, num_bytes |-> num_bytes],
           hal_flash_erase(fault, mem, id, address, num_bytes))

HalFlashIsOnes ==
    /\ pc = "idle"
    /\ \E id \in DOMAIN FlashDevs : \E address \in AddrsOf(id - 1), num_bytes \in ScanLens,
       fault \in Faults({"read"}, 0..1) :
        Do([name |-> "is_ones", id |-> id - 1, address |-> address,
            num_bytes |-> num_bytes, after_erase |-> FALSE],
           hal_flash_is_ones(fault, mem, FlashDevs[id], address, num_bytes))

\* hal_flash_is_ones called on the range of a region erase that just succeeded
HalFlashIsOnesAfterErase ==
    /\ pc = "ret" /\ op.name = "erase" /\ ret = 0
    /\ \E fault \in Faults({"read"}, 0..1) :
        LET r == hal_flash_is_ones(fault, mem, hal_bsp_flash_dev(op.id),
                                   op.address, op.num_bytes)
        IN  /\ pc' = "ret"
            /\ op' = [name |-> "is_ones", id |-> op.id, address |-> op.address,
                      num_bytes |-> op.num_bytes, after_erase |-> TRUE]
            /\ ret' = r.ret
            /\ calls' = r.calls
            /\ UNCHANGED <<mem, syscfg>>

HalFlashIsZeroes ==
    /\ pc = "idle"
    /\ \E id \in DOMAIN FlashDevs : \E address \in AddrsOf(id - 1), num_bytes \in ScanLens,
       fault \in Faults({"read"}, 0..1) :
        Do([name |-> "is_zeroes", id |-> id - 1, address |-> address,
            num_bytes |-> num_bytes],
           hal_flash_is_zeroes(fault, mem, FlashDevs[id], address, num_bytes))

HalFlashIsEmpty ==
    /\ pc = "idle"
    /\ \E id \in Ids : \E address \in AddrsOf(id), num_bytes \in ScanLens,
       fault \in Faults({"read"}, 0..1) \cup Faults({"is_empty"}, {0}) :
        Do([name |-> "isempty", id |-> id, address |-> address, num_bytes |-> num_bytes],
           hal_flash_isempty(fault, mem, id, address, num_bytes))

Next ==
    \/ HalFlashInit
    \/ HalFlashRead
    \/ HalFlashWrite
    \/ HalFlashEraseSector
    \/ HalFlashErase
    \/ HalFlashIsOnes
    \/ HalFlashIsOnesAfterErase
    \/ HalFlashIsZeroes
    \/ HalFlashIsEmpty
    \/ Return

Spec == Init /\ [][Next]_vars

(***************************************************************************)
(* Bounds validator applied to chosen descriptors and addresses            *)
(***************************************************************************)
Descriptors ==
    {FlashDevs[i] : i \in DOMAIN FlashDevs} \cup
    { [id |-> 9, hf_base_addr |-> U32(16), hf_size |-> <<\HFFFF, \HFFEF>>,
       hf_sector_cnt |-> 0, sectors |-> <<>>, hff_is_empty |-> FALSE],
      [id |-> 9, hf_base_addr |-> Zero32, hf_size |-> Max32,
       hf_sector_cnt |-> 0, sectors |-> <<>>, hff_is_empty |-> FALSE],
      [id |-> 9, hf_base_addr |-> <<\H8000, 0>>, hf_size |-> Zero32,
       hf_sector_cnt |-> 0, sectors |-> <<>>, hff_is_empty |-> FALSE] }

EdgeAddrs(hf) ==
    LET b == hf.hf_base_addr
        e == Add32(hf.hf_base_addr, hf.hf_size)
    IN  {Sub32(b, U32(1)), b, Add32(b, U32(1)),
         Sub32(e, U32(1)), e, Add32(e, U32(1))}

ProbeAddrs == UNION {EdgeAddrs(d) : d \in Descriptors} \cup {Zero32, Max32}

CheckAddr(hf, addr) ==
    /\ pc = "idle"
    /\ pc' = "ret"
    /\ op' = [name |-> "check_addr", hf |-> hf, addr |-> addr]
    /\ ret' = hal_flash_check_addr(hf, addr)
    /\ calls' = <<>>
    /\ UNCHANGED <<mem, syscfg>>

NextCheckAddr ==
    \/ \E hf \in Descriptors, addr \in ProbeAddrs : CheckAddr(hf, addr)
    \/ Return

SpecCheckAddr == Init /\ [][NextCheckAddr]_vars

\* base <= addr <= base + size over the integers (no wrap): addr - base
\* cannot underflow once base <= addr
InBounds(hf, addr) ==
    /\ Le32(hf.hf_base_addr, addr)
    /\ Le32(Sub32(addr, hf.hf_base_addr), hf.hf_size)

\* C3: hal_flash_check_addr(hf, addr) succeeds if and only if
\* base <= addr <= base + size, for every 32-bit base, size and addr,
\* including descriptors whose region ends at the top of the address space.
C3_CheckAddrIffInBounds ==
    (pc = "ret" /\ op.name = "check_addr")
        => ((ret = 0) <=> InBounds(op.hf, op.addr))

(***************************************************************************)
(* Properties                                                              *)
(***************************************************************************)
\* 33-bit sums, for stating ranges over the integers
WideAdd(a, b) ==
    LET lo == a[2] + b[2]
        hi == a[1] + b[1] + (lo \div Limb)
    IN  <<hi \div Limb, hi % Limb, lo % Limb>>

Wide(a) == <<0, a[1], a[2]>>

WideLt(a, b) ==
    \/ a[1] < b[1]
    \/ a[1] = b[1] /\ a[2] < b[2]
    \/ a[1] = b[1] /\ a[2] = b[2] /\ a[3] < b[3]

FailedCalls(log) ==
    {k \in DOMAIN log :
        IF log[k].fn = "is_empty" THEN log[k].rc \notin {0, 1} ELSE log[k].rc # 0}

CallsOf(log, fn) == SelectSeq(log, LAMBDA c : c.fn = fn)

\* every byte of [address, address + n) of device id equals val
AllBytes(m, id, address, n, val) ==
    \A i \in 0..(n - 1) : ByteAt(m, id, Add32(address, U32(i))) = val

\* C1: with all driver reads succeeding, the constant-fill scan returns 1 if
\* and only if every byte of [address, address + num_bytes) equals val.
C1_IsSettoScansWholeRegion ==
    (pc = "ret" /\ op.name \in {"is_ones", "is_zeroes"} /\ FailedCalls(calls) = {})
        => ((ret = 1) <=> AllBytes(mem, op.id, op.address, Nat32(op.num_bytes),
                                   IF op.name = "is_ones" THEN 255 ELSE 0))

\* C2: a write on a known device whose address + num_bytes (as integers)
\* exceeds base + size fails and never invokes the driver write.
C2_WriteBeyondEndRejected ==
    (/\ pc \in {"ret", "fatal"} /\ op.name = "write"
     /\ ~IsNull(hal_bsp_flash_dev(op.id))
     /\ WideLt(WideAdd(hal_bsp_flash_dev(op.id).hf_base_addr,
                       hal_bsp_flash_dev(op.id).hf_size),
               WideAdd(op.address, op.num_bytes)))
        => (pc = "ret" /\ ret # 0 /\ CallsOf(calls, "write") = <<>>)

\* sectors (0-based indices, ascending) that [address, address + num_bytes) touches
Touched(hf, address, num_bytes) ==
    {i \in 0..(hf.hf_sector_cnt - 1) :
        /\ WideLt(Wide(address),
                  WideAdd(hf.sectors[i + 1].start, hf.sectors[i + 1].size))
        /\ WideLt(Wide(hf.sectors[i + 1].start), WideAdd(address, num_bytes))}

RECURSIVE Ascending(_)
Ascending(S) ==
    IF S = {} THEN <<>>
    ELSE LET lo == CHOOSE x \in S : \A y \in S : x <= y
         IN  <<lo>> \o Ascending(S \ {lo})

\* the programmed cells of device hf lying in the sectors of index set S (0-based)
CellsIn(m, hf, S) ==
    {c \in m : c[1] = hf.id /\ \E i \in S : (i + 1) \in SectorsAt(hf, c[2])}

\* C4: a successful region erase issues erase-sector calls for exactly the
\* sectors its range touches, once each in ascending index order, and
\* leaves every other sector's contents unchanged.
C4_EraseExactlyTouchedSectors ==
    [][ (pc = "idle" /\ pc' = "ret" /\ op'.name = "erase" /\ ret' = 0)
        => LET hf == hal_bsp_flash_dev(op'.id)
               T  == Touched(hf, op'.address, op'.num_bytes)
               ec == CallsOf(calls', "erase_sector")
           IN  /\ Len(ec) = Cardinality(T)
               /\ \A k \in DOMAIN ec :
                      ec[k].arg = hf.sectors[Ascending(T)[k] + 1].start
               /\ mem' \subseteq mem
               /\ mem \ mem' \subseteq CellsIn(mem, hf, T) ]_vars

C4_Witness ==
    /\ pc = "ret" /\ op.name = "erase" /\ ret = 0
    /\ op.id = 0 /\ op.address = U32(\H8030) /\ op.num_bytes = U32(\H20)
    /\ [k \in 1..2 |-> CallsOf(calls, "erase_sector")[k].arg]
           = <<U32(\H8000), U32(\H8040)>>
    /\ <<0, U32(\H80FF)>> \in mem

\* the driver primitive an operation exists to invoke
OwnPrimitive(name) ==
    CASE name = "read" -> {"read"}
      [] name = "write" -> {"write"}
      [] name \in {"erase_sector", "erase"} -> {"erase_sector"}
      [] name \in {"is_ones", "is_zeroes"} -> {"read"}
      [] name = "isempty" -> {"read", "is_empty"}
      [] OTHER -> {}

\* C5 as stated: whenever the driver primitive of read, write, erase_sector,
\* region erase or the scan fails, the call returns that very value, as an
\* error return, and the primitive is not called again.
C5_DriverFailureUnmodified ==
    (/\ pc \in {"ret", "fatal"}
     /\ \E k \in FailedCalls(calls) : calls[k].fn \in OwnPrimitive(op.name))
        => /\ pc = "ret"
           /\ FailedCalls(calls) = {Len(calls)}
           /\ ret = calls[Len(calls)].rc

\* C5 amended: the failing primitive is always the last driver call (no
\* retry).  read, write, erase_sector and the driver's is_empty hand the
\* driver's value back unmodified; a failing erase-sector in region erase and
\* a failing read in the constant-fill scan are reported as -1; all of these
\* are error returns.  A failing sector-info call or verification readback
\* stops in an assertion instead.
C5_DriverFailureReported ==
    (/\ pc \in {"ret", "fatal"}
     /\ op.name \in {"read", "write", "erase_sector", "erase",
                     "is_ones", "is_zeroes", "isempty"}
     /\ FailedCalls(calls) # {})
        => LET last == calls[Len(calls)]
               scan == op.name \in {"is_ones", "is_zeroes", "isempty"}
           IN  /\ FailedCalls(calls) = {Len(calls)}
               /\ CASE last.fn = "sector_info" -> pc = "fatal"
                    [] last.fn = "read" /\ op.name = "read" ->
                           pc = "ret" /\ ret = last.rc
                    [] last.fn = "read" /\ scan -> pc = "ret" /\ ret = -1
                    [] last.fn = "read" /\ ~scan /\ op.name # "read" -> pc = "fatal"
                    [] last.fn = "erase_sector" /\ op.name = "erase" ->
                           pc = "ret" /\ ret = -1
                    [] OTHER -> pc = "ret" /\ ret = last.rc

C5_Witness ==
    /\ pc = "ret" /\ op.name = "erase" /\ ret = -1
    /\ Len(calls) > 2
    /\ calls[Len(calls)].fn = "erase_sector"
    /\ calls[Len(calls)].rc = 7

\* C6: when the driver erase of a touched sector fails, region erase returns
\* failure at once: the failing call is the last driver call, the sectors
\* erased before it stay erased and no other sector's contents change.
C6_EraseAbortsWithoutRollback ==
    [][ (/\ pc = "idle" /\ pc' = "ret" /\ op'.name = "erase"
         /\ \E k \in DOMAIN calls' :
                calls'[k].fn = "erase_sector" /\ calls'[k].rc # 0)
        => LET hf   == hal_bsp_flash_dev(op'.id)
               done == {i \in 0..(hf.hf_sector_cnt - 1) :
                           \E k \in DOMAIN calls' :
                               /\ calls'[k].fn = "erase_sector"
                               /\ calls'[k].rc = 0
                               /\ calls'[k].arg = hf.sectors[i + 1].start}
           IN  /\ ret' # 0
               /\ calls'[Len(calls')].fn = "erase_sector"
               /\ calls'[Len(calls')].rc # 0
               /\ \A k \in 1..(Len(calls') - 1) : calls'[k].rc = 0
               /\ mem' = mem \ CellsIn(mem, hf, done) ]_vars

C6_Witness ==
    /\ pc = "ret" /\ op.name = "erase" /\ ret # 0
    /\ Len(CallsOf(calls, "erase_sector")) = 2
    /\ CallsOf(calls, "erase_sector")[1].rc = 0
    /\ CallsOf(calls, "erase_sector")[2].rc # 0
    /\ Cardinality(Touched(hal_bsp_flash_dev(op.id), op.address, op.num_bytes)) > 2
    /\ mem # {}

\* first logical id for which the registry returns none
FirstNone == CHOOSE n \in 0..255 :
    IsNull(hal_bsp_flash_dev(n)) /\ \A j \in 0..(n - 1) : ~IsNull(hal_bsp_flash_dev(j))

\* C7: hal_flash_init calls the driver init of ids 0 .. FirstNone-1, once
\* each in ascending order whatever the earlier results, and returns
\* failure if and only if one of those calls failed.
C7_InitAllDevices ==
    (pc = "ret" /\ op.name = "init")
        => /\ Len(calls) = FirstNone
           /\ \A k \in DOMAIN calls : calls[k].fn = "init" /\ calls[k].arg = k - 1
           /\ (ret # 0) <=> (\E k \in DOMAIN calls : calls[k].rc # 0)
           /\ ret \in {0, -1}

C7_Witness ==
    /\ pc = "ret" /\ op.name = "init" /\ ret = -1
    /\ Len(calls) = 3
    /\ calls[1].rc = 0 /\ calls[2].rc # 0 /\ calls[3].rc = 0

\* the flash range of a returned write holds exactly the source bytes
ReadbackEqual ==
    \A i \in 0..(Len(op.src) - 1) :
        ByteAt(mem, op.id, Add32(op.address, U32(i))) = op.src[i + 1]

\* C8: with write verification enabled, a write of a whole source buffer
\* returns success only if the range reads back equal to the source; a
\* mismatch after a successful driver write stops in the assertion; with
\* verification disabled no write reaches the fatal state.
C8_VerifiedWriteReadsBack ==
    (pc \in {"ret", "fatal"} /\ op.name = "write")
        => /\ (/\ syscfg.HAL_FLASH_VERIFY_WRITES
               /\ op.num_bytes = U32(Len(op.src))
               /\ pc = "ret" /\ ret = 0)
                  => ReadbackEqual
           /\ (/\ syscfg.HAL_FLASH_VERIFY_WRITES
               /\ op.num_bytes = U32(Len(op.src))
               /\ CallsOf(calls, "write") # <<>>
               /\ CallsOf(calls, "write")[1].rc = 0
               /\ ~ReadbackEqual)
                  => pc = "fatal"
           /\ ~syscfg.HAL_FLASH_VERIFY_WRITES => pc = "ret"

C8_Witness ==
    /\ pc = "ret" /\ op.name = "write" /\ ret = 0
    /\ syscfg.HAL_FLASH_VERIFY_WRITES
    /\ op.num_bytes = U32(Len(op.src))
    /\ Len(op.src) > VerifyBufSz
    /\ Len(CallsOf(calls, "read")) > 1
    /\ mem # {}

\* every byte of [address, address + n) of hf lies in one of its sectors
RangeInSectors(hf, address, n) ==
    \A i \in 0..(n - 1) : SectorsAt(hf, Add32(address, U32(i))) # {}

\* C9: hal_flash_is_ones called right after a successful region erase of the
\* same range, the range lying within sectors of the device and the reads
\* succeeding, returns 1.
C9_EraseThenIsOnes ==
    (/\ pc = "ret" /\ op.name = "is_ones" /\ op.after_erase
     /\ FailedCalls(calls) = {}
     /\ RangeInSectors(hal_bsp_flash_dev(op.id), op.address, Nat32(op.num_bytes)))
        => ret = 1

C9_Witness ==
    /\ pc = "ret" /\ op.name = "is_ones" /\ op.after_erase
    /\ ret = 1
    /\ Len(calls) > 1
    /\ mem # {}
    /\ RangeInSectors(hal_bsp_flash_dev(op.id), op.address, Nat32(op.num_bytes))

\* C10: region erase of zero bytes at an in-range address of a known device
\* returns -1 without any driver call.
C10_EraseZeroLengthRejected ==
    (/\ pc \in {"ret", "fatal"} /\ op.name = "erase"
     /\ ~IsNull(hal_bsp_flash_dev(op.id))
     /\ InBounds(hal_bsp_flash_dev(op.id), op.address)
     /\ op.num_bytes = Zero32)
        => (pc = "ret" /\ ret = -1 /\ calls = <<>>)

C10_Witness ==
    /\ pc = "ret" /\ op.name = "erase" /\ ret = -1 /\ calls = <<>>
    /\ op.id = 0 /\ op.address = U32(\H8040) /\ op.num_bytes = Zero32
    /\ hal_flash_check_addr(hal_bsp_flash_dev(0), U32(\H8040)) = 0

====
